---- MODULE Spec2Model ----
(***************************************************************************)
(* Model of BondYieldCalc (src/main.py): the yield formulas, the Newton    *)
(* solver ytm and the aggregator analyze_bonds.                            *)
(*                                                                         *)
(* Python floats are modelled as signed decimal fixed-point numbers with   *)
(* FracLimbs base-10000 limbs after the point (magnitudes are sequences of *)
(* limbs, least significant first, of any length), plus the IEEE values    *)
(* inf and nan.  Every arithmetic operation rounds its exact result once,  *)
(* to the nearest representable number, as a float operation does.         *)
(***************************************************************************)
EXTENDS Integers, Sequences, FiniteSets, TLC

Base == 10000
FracLimbs == 6

(***************************************************************************)
(* Natural numbers of any size: sequences of limbs, least significant      *)
(* first, without leading zero limbs; <<>> is zero.  The operations that   *)
(* carry from limb to limb split their range in halves.                    *)
(***************************************************************************)
Max(S) == CHOOSE m \in S : \A n \in S : n <= m

Min(S) == CHOOSE m \in S : \A n \in S : m <= n

\* s without its leading zero limbs
Norm(s) == SubSeq(s, 1, Max({0} \cup {j \in 1..Len(s) : s[j] # 0}))

Zeros(n) == SubSeq([j \in 1..n |-> 0], 1, n)

Reverse(s) == [j \in 1..Len(s) |-> s[Len(s) + 1 - j]]

At(a, j) == IF j <= Len(a) THEN a[j] ELSE 0

\* the limbs r[1] of a range with the carry r[2] out of it as one more limb
WithCarry(r) == IF r[2] = 0 THEN r[1] ELSE Append(r[1], r[2])

\* limbs lo..hi of a + b + c and the carry out of them
RECURSIVE AddRange(_, _, _, _, _)
AddRange(a, b, lo, hi, c) ==
    IF lo > hi THEN <<<<>>, c>>
    ELSE IF lo = hi
    THEN << <<(At(a, lo) + At(b, lo) + c) % Base>>,
            (At(a, lo) + At(b, lo) + c) \div Base >>
    ELSE LET mid == (lo + hi) \div 2
             L   == AddRange(a, b, lo, mid, c)
             H   == AddRange(a, b, mid + 1, hi, L[2])
         IN  <<L[1] \o H[1], H[2]>>

MAdd(a, b) == WithCarry(AddRange(a, b, 1, Max({Len(a), Len(b)}), 0))

\* limbs lo..hi of a - b - c and the borrow out of them
RECURSIVE SubRange(_, _, _, _, _)
SubRange(a, b, lo, hi, c) ==
    IF lo > hi THEN <<<<>>, c>>
    ELSE IF lo = hi
    THEN << <<(a[lo] - At(b, lo) - c) % Base>>,
            IF a[lo] - At(b, lo) - c < 0 THEN 1 ELSE 0 >>
    ELSE LET mid == (lo + hi) \div 2
             L   == SubRange(a, b, lo, mid, c)
             H   == SubRange(a, b, mid + 1, hi, L[2])
         IN  <<L[1] \o H[1], H[2]>>

\* a - b for a >= b
MSub(a, b) == Norm(SubRange(a, b, 1, Len(a), 0)[1])

\* -1, 0 or 1 as a < b, a = b or a > b
MCmp(a, b) ==
    IF Len(a) < Len(b) THEN -1
    ELSE IF Len(a) > Len(b) THEN 1
    ELSE LET differ == {j \in 1..Len(a) : a[j] # b[j]}
         IN  IF differ = {} THEN 0
             ELSE IF a[Max(differ)] < b[Max(differ)] THEN -1 ELSE 1

\* limbs lo..hi of a * k + c and the carry out of them
RECURSIVE MulRange(_, _, _, _, _)
MulRange(a, k, lo, hi, c) ==
    IF lo > hi THEN <<<<>>, c>>
    ELSE IF lo = hi
    THEN << <<(a[lo] * k + c) % Base>>, (a[lo] * k + c) \div Base >>
    ELSE LET mid == (lo + hi) \div 2
             L   == MulRange(a, k, lo, mid, c)
             H   == MulRange(a, k, mid + 1, hi, L[2])
         IN  <<L[1] \o H[1], H[2]>>

\* a * k for a limb k
MMulSmall(a, k) ==
    IF k = 0 THEN <<>> ELSE WithCarry(MulRange(a, k, 1, Len(a), 0))

\* a * Base^n
MShl(a, n) == IF a = <<>> THEN a ELSE Zeros(n) \o a

\* a \div Base^n
MShr(a, n) == IF Len(a) <= n THEN <<>> ELSE SubSeq(a, n + 1, Len(a))

\* a times the limbs lo..hi of b, counted from limb lo
RECURSIVE MulLimbs(_, _, _, _)
MulLimbs(a, b, lo, hi) ==
    IF lo = hi THEN MMulSmall(a, b[lo])
    ELSE MAdd(MulLimbs(a, b, lo, (lo + hi) \div 2),
              MShl(MulLimbs(a, b, (lo + hi) \div 2 + 1, hi),
                   (lo + hi) \div 2 + 1 - lo))

MMul(a, b) == IF a = <<>> \/ b = <<>> THEN <<>> ELSE MulLimbs(a, b, 1, Len(b))

\* the largest q with q * b <= r, at or below the estimate q
RECURSIVE QFix(_, _, _)
QFix(r, b, q) ==
    IF q > 0 /\ MCmp(MMulSmall(b, q), r) > 0 THEN QFix(r, b, q - 1) ELSE q

\* the limbs n+1 and n of r as one number
Top2(r, n) ==
    IF Len(r) > n THEN r[n + 1] * Base + r[n]
    ELSE IF Len(r) = n THEN r[n] ELSE 0

\* r \div b for r < b * Base and a divisor whose leading limb is at least
\* Base \div 2: the leading limbs give an estimate at most 2 too large
QDigit(r, b) ==
    QFix(r, b, Min({Base - 1, Top2(r, Len(b)) \div b[Len(b)]}))

\* the quotient limb e of r by b and the remainder it leaves
DivLimb(r, b, e) == << <<e>>, IF e = 0 THEN r ELSE MSub(r, MMulSmall(b, e)) >>

\* one step of long division: the remainder so far takes the next limb
DivStep(r, b) == DivLimb(r, b, QDigit(r, b))

\* long division over the limbs hi..lo of a, from the remainder r of the
\* limbs above them: their quotient limbs, leading limb first, and the
\* remainder
RECURSIVE DivRange(_, _, _, _, _)
DivRange(a, b, hi, lo, r) ==
    IF hi < lo THEN <<<<>>, r>>
    ELSE IF hi = lo THEN DivStep(Norm(<<a[hi]>> \o r), b)
    ELSE LET mid == (lo + hi) \div 2
             H   == DivRange(a, b, hi, mid + 1, r)
             L   == DivRange(a, b, mid, lo, H[2])
         IN  <<H[1] \o L[1], L[2]>>

\* limbs hi..lo of a \div k for a limb k > 0, leading limb first, from the
\* carry c of the limbs above them, and the carry out
RECURSIVE DivSmall(_, _, _, _, _)
DivSmall(a, k, hi, lo, c) ==
    IF hi < lo THEN <<<<>>, c>>
    ELSE IF hi = lo
    THEN << <<(c * Base + a[hi]) \div k>>, (c * Base + a[hi]) % k >>
    ELSE LET mid == (lo + hi) \div 2
             H   == DivSmall(a, k, hi, mid + 1, c)
             L   == DivSmall(a, k, mid, lo, H[2])
         IN  <<H[1] \o L[1], L[2]>>

\* the factor that makes the leading limb of b at least Base \div 2
Scale(b) == Base \div (b[Len(b)] + 1)

\* the quotient and remainder qr of a scaled division, the remainder
\* brought back by the factor k
Unscale(qr, k) ==
    <<Norm(Reverse(qr[1])),
      Norm(Reverse(DivSmall(qr[2], k, Len(qr[2]), 1, 0)[1]))>>

LongDiv(a, b) == DivRange(a, b, Len(a), 1, <<>>)

\* <<a \div b, a % b>> for b > 0: both are scaled so that the divisor's
\* leading limb is large, which leaves the quotient as it is
MDivMod(a, b) ==
    Unscale(LongDiv(MMulSmall(a, Scale(b)), MMulSmall(b, Scale(b))), Scale(b))

(***************************************************************************)
(* Floats.  A finite float is a sign and a magnitude counted in units of   *)
(* Base^-FracLimbs; inf and nan are the IEEE values numpy produces.        *)
(***************************************************************************)
Fin(neg, mag) == [k |-> "fin", neg |-> neg /\ mag # <<>>, mag |-> mag]
Inf(neg) == [k |-> "inf", neg |-> neg, mag |-> <<>>]
NaN == [k |-> "nan", neg |-> FALSE, mag |-> <<>>]
Zero == Fin(FALSE, <<>>)

RECURSIVE Limbs(_)
Limbs(n) == IF n = 0 THEN <<>> ELSE <<n % Base>> \o Limbs(n \div Base)

RECURSIVE LimbsToInt(_)
LimbsToInt(s) == IF s = <<>> THEN 0 ELSE s[1] + Base * LimbsToInt(Tail(s))

IntAbs(n) == IF n < 0 THEN -n ELSE n

\* 10^e as a natural number
P10(e) == MShl(<< <<1, 10, 100, 1000>>[(e % 4) + 1] >>, e \div 4)

\* m \div Base^n, rounded to nearest
RoundShr(m, n) ==
    IF n = 0 THEN m ELSE MShr(MAdd(m, Zeros(n - 1) \o <<Base \div 2>>), n)

\* the quotient dm[1] of a division by b, one more when the remainder dm[2]
\* is half of b or above
RoundUp(dm, b) ==
    IF MCmp(MAdd(dm[2], dm[2]), b) >= 0 THEN MAdd(dm[1], <<1>>) ELSE dm[1]

\* a / b for b > 0, rounded to nearest
RoundDiv(a, b) == RoundUp(MDivMod(a, b), b)

\* the float of a Python int
FromInt(n) == Fin(n < 0, MShl(Limbs(IntAbs(n)), FracLimbs))

\* the float of the decimal literal m * 10^e
Dec(m, e) ==
    IF e >= 0
    THEN Fin(m < 0, MShl(MMul(Limbs(IntAbs(m)), P10(e)), FracLimbs))
    ELSE Fin(m < 0, RoundDiv(MShl(Limbs(IntAbs(m)), FracLimbs), P10(-e)))

FNeg(a) == IF a.k = "nan" THEN a ELSE [a EXCEPT !.neg = ~a.neg /\ (a.k = "inf" \/ a.mag # <<>>)]

FAbs(a) == [a EXCEPT !.neg = FALSE]

FAdd(a, b) ==
    IF a.k = "nan" \/ b.k = "nan" THEN NaN
    ELSE IF a.k = "inf" THEN (IF b.k = "inf" /\ b.neg # a.neg THEN NaN ELSE a)
    ELSE IF b.k = "inf" THEN b
    ELSE IF a.neg = b.neg THEN Fin(a.neg, MAdd(a.mag, b.mag))
    ELSE IF MCmp(a.mag, b.mag) >= 0 THEN Fin(a.neg, MSub(a.mag, b.mag))
    ELSE Fin(b.neg, MSub(b.mag, a.mag))

FSub(a, b) == FAdd(a, FNeg(b))

FMul(a, b) ==
    IF a.k = "nan" \/ b.k = "nan" THEN NaN
    ELSE IF a.k = "inf" \/ b.k = "inf"
    THEN (IF a = Zero \/ b = Zero THEN NaN ELSE Inf(a.neg # b.neg))
    ELSE Fin(a.neg # b.neg, RoundShr(MMul(a.mag, b.mag), FracLimbs))

\* numpy's division: a zero divisor gives inf or nan, never an exception
FDiv(a, b) ==
    IF a.k = "nan" \/ b.k = "nan" THEN NaN
    ELSE IF a.k = "inf" THEN (IF b.k = "inf" THEN NaN ELSE Inf(a.neg # b.neg))
    ELSE IF b.k = "inf" THEN Zero
    ELSE IF b = Zero THEN (IF a = Zero THEN NaN ELSE Inf(a.neg))
    ELSE Fin(a.neg # b.neg, RoundDiv(MShl(a.mag, FracLimbs), b.mag))

\* a < b; False whenever nan is involved
FLt(a, b) ==
    IF a.k = "nan" \/ b.k = "nan" THEN FALSE
    ELSE IF a.k = "inf" /\ b.k = "inf" THEN a.neg /\ ~b.neg
    ELSE FSub(a, b).neg

\* int(a) of a finite float: truncation towards zero
ToInt(a) ==
    IF a.neg THEN -LimbsToInt(MShr(a.mag, FracLimbs))
    ELSE LimbsToInt(MShr(a.mag, FracLimbs))

(***************************************************************************)
(* Python values: a str is Str(chars), the outcome of an evaluation that   *)
(* raises is Raise(name), a numpy array Array(a), a dict a function on its *)
(* keys.                                                                   *)
(***************************************************************************)
Str(chars) == [str |-> chars]
Raise(e) == [exc |-> e]
Array(a) == [array |-> a]
IsExc(v) == "exc" \in DOMAIN v

\* dict.get that overlooks the key: C9 fails with it
GetDefault(b, key, default) == default

\* dict.get(key, default)
Get(b, key, default) == IF key \in DOMAIN b THEN b[key] ELSE default

Ch(n) == <<"0", "1", "2", "3", "4", "5", "6", "7", "8", "9">>[n + 1]

RECURSIVE AllDigits(_)
AllDigits(h) ==
    IF h = <<>> THEN <<>>
    ELSE AllDigits(Tail(h))
           \o <<Ch(h[1] \div 1000), Ch((h[1] \div 100) % 10),
                Ch((h[1] \div 10) % 10), Ch(h[1] % 10)>>

RECURSIVE StripZeros(_)
StripZeros(s) ==
    IF Len(s) > 3 /\ s[1] = "0" THEN StripZeros(Tail(s)) ELSE s

\* one hundredth
Cent == Zeros(FracLimbs - 1) \o <<Base \div 100>>

\* the hundredths dm[1] of a magnitude, one more when the rest dm[2] is above
\* half a hundredth, or is half and dm[1] is odd
HalfEven(dm) ==
    LET c == MCmp(MAdd(dm[2], dm[2]), Cent)
    IN  IF c > 0 \/ (c = 0 /\ dm[1] # <<>> /\ dm[1][1] % 2 = 1)
        THEN MAdd(dm[1], <<1>>) ELSE dm[1]

\* the digits ds with the point before the last two
Point(ds) ==
    SubSeq(ds, 1, Len(ds) - 2) \o <<".">> \o SubSeq(ds, Len(ds) - 1, Len(ds))

\* format(p, ".2f"): p rounded half-even to two decimals
Fmt2f(p) ==
    IF p.k = "nan" THEN <<"n", "a", "n">>
    ELSE IF p.k = "inf"
    THEN (IF p.neg THEN <<"-">> ELSE <<>>) \o <<"i", "n", "f">>
    ELSE (IF p.neg THEN <<"-">> ELSE <<>>)
           \o Point(StripZeros(<<"0", "0", "0">>
                                 \o AllDigits(HalfEven(MDivMod(p.mag, Cent)))))

\* the fraction itself in place of its text: C5 fails with it
Raw(v) == v

\* f"{v * 100:.2f}%"
PctStr(v) == Str(Fmt2f(FMul(v, FromInt(100))) \o <<"%">>)

(***************************************************************************)
(* The yield formulas.                                                     *)
(***************************************************************************)
\* Python's float division raises on a zero divisor
current_yield(price, coupon, payments_per_year) ==
    LET annual_coupon == FMul(coupon, FromInt(payments_per_year))
    IN  IF price = Zero THEN Raise("ZeroDivisionError")
        ELSE FDiv(annual_coupon, price)

\* inflation added to the yield: C2 fails with it
real_yield_added(nominal_ytm, inflation) == FAdd(nominal_ytm, inflation)

real_yield(nominal_ytm, inflation) == FSub(nominal_ytm, inflation)

floater_coupon(base_rate, spread) == FAdd(base_rate, spread)

(***************************************************************************)
(* ytm: the cash flows, npv and the tests of the Newton loop.              *)
(***************************************************************************)
Guess0 == Dec(15, -2)
FdStep == Dec(1, -6)
FlatTol == Dec(1, -9)
ResidualTol == Dec(1, -6)
MaxIter == 100
DefaultNominal == 1000
DefaultPayments == 2
DefaultSpread == Zero
DefaultInflation == Dec(6, -2)
DefaultBaseRate == Dec(15, -2)

\* int(years * payments_per_year)
Periods(years, payments_per_year) == ToInt(FMul(years, FromInt(payments_per_year)))

\* [coupon] * periods, an empty list for periods <= 0
Repeat(v, n) == SubSeq([j \in 1..n |-> v], 1, n)

\* cf with nominal added to its last element; indexing the empty array raises
AddLast(cf, nominal) ==
    IF cf = <<>> THEN Raise("IndexError")
    ELSE Array([cf EXCEPT ![Len(cf)] = FAdd(cf[Len(cf)], nominal)])

CashFlows(coupon, periods, nominal) == AddLast(Repeat(coupon, periods), nominal)

\* sum over the periods from t on of cf[t] / q^t, qt being q^t
RECURSIVE Discounted(_, _, _, _)
Discounted(cf, q, t, qt) ==
    IF t > Len(cf) THEN Zero
    ELSE FAdd(FDiv(cf[t], qt), Discounted(cf, q, t + 1, FMul(qt, q)))

\* 1 + rate / payments_per_year
Factor(rate, payments_per_year) ==
    FAdd(FromInt(1), FDiv(rate, FromInt(payments_per_year)))

PresentValue(cf, q) == Discounted(cf, q, 1, q)

npv(cash_flows, price, payments_per_year, rate) ==
    FSub(PresentValue(cash_flows, Factor(rate, payments_per_year)), price)

\* (npv(guess + 1e-6) - f) / 1e-6, f1 being npv(guess + 1e-6)
Derivative(f1, f) == FDiv(FSub(f1, f), FdStep)

\* a loop that runs once more than range(100): C7 fails with it
InRangeInclusive(it) == it <= MaxIter

\* range(100): whether the loop body runs once more after it passes
InRange(it) == it < MaxIter

\* a loop without the test of d: C8 fails with it
NeverFlat(d) == FALSE

\* abs(d) < 1e-9
IsFlat(d) == FLt(FAbs(d), FlatTol)

\* abs(f) < 1e-6
IsSmall(f) == FLt(FAbs(f), ResidualTol)

(***************************************************************************)
(* The inputs: bond records and batches of them.                           *)
(***************************************************************************)
MaxBonds == 2

Bond(name, type, price, coupon, years) ==
    [name |-> name, type |-> type, price |-> price, coupon |-> coupon,
     years |-> years]

\* bonds of the batches: the three kinds with and without their optional
\* keys, an unrecognized kind, and two records whose computation raises
FixedDefault == Bond("OFZ-26238", "fixed", FromInt(900), FromInt(35), FromInt(1))
FixedGiven ==
    Bond("CORP-1", "fixed", FromInt(480), FromInt(40), FromInt(2))
      @@ [nominal |-> FromInt(500), payments_per_year |-> 1]
LinkerDefault == Bond("OFZ-IN 52002", "linker", FromInt(950), FromInt(25), FromInt(1))
FloaterSpread ==
    Bond("OFZ-PK 29015", "floater", FromInt(1000), Zero, FromInt(5))
      @@ [spread |-> Dec(5, -3)]
FloaterBare == [name |-> "FLT-0", type |-> "floater"]
ZeroCoupon == [name |-> "ZC-1", type |-> "zero-coupon"]
FixedNoPrice == Bond("BAD-P", "fixed", Zero, FromInt(35), FromInt(1))
LinkerShort == Bond("BAD-Y", "linker", FromInt(950), FromInt(25), Dec(4, -1))

BatchBonds ==
    {FixedDefault, FixedGiven, LinkerDefault, FloaterSpread, FloaterBare,
     ZeroCoupon, FixedNoPrice, LinkerShort}

\* bonds that take the solver through each of its exits; each is a batch of
\* its own
Solo(name, price, coupon, years, nominal, payments_per_year) ==
    Bond(name, "linker", price, coupon, years)
      @@ [nominal |-> nominal, payments_per_year |-> payments_per_year]

SoloBonds ==
    {Solo("discount", FromInt(990), FromInt(150), FromInt(2), FromInt(1000), 1),
     Solo("quarterly", FromInt(1020), FromInt(20), FromInt(1), FromInt(1000), 4),
     Solo("exact", FDiv(FromInt(1000), Dec(115, -2)), Zero, FromInt(1), FromInt(1000), 1),
     Solo("dust", Dec(173913, -13), Zero, FromInt(1), Dec(1, -8), 1),
     Solo("nothing", FromInt(1000), Zero, FromInt(1), Zero, 1),
     Solo("dear", FromInt(5000), Zero, FromInt(1), FromInt(1000), 1),
     Solo("free", Zero, Zero, FromInt(1), FromInt(1), 1),
     Solo("unpriced", Inf(FALSE), FromInt(35), FromInt(1), FromInt(1000), 2),
     Solo("past", FromInt(900), FromInt(35), Dec(-15, -1), FromInt(1000), 2)}

\* the bonds of the script's own example
ExampleBatch ==
    <<Bond("OFZ-26238", "fixed", FromInt(900), FromInt(35), FromInt(3)),
      Bond("OFZ-IN 52002", "linker", FromInt(950), FromInt(25), FromInt(4)),
      FloaterSpread>>

RECURSIVE SeqsUpTo(_, _)
SeqsUpTo(S, n) ==
    IF n = 0 THEN {<<>>}
    ELSE SeqsUpTo(S, n - 1)
           \cup {Append(q, e) : q \in SeqsUpTo(S, n - 1), e \in S}

Batches ==
    SeqsUpTo(BatchBonds, MaxBonds) \cup {<<b>> : b \in SoloBonds} \cup {ExampleBatch}

\* the calls of analyze_bonds, <<bonds, inflation, base_rate>>: every batch
\* with the defaults, as the script calls it, and the batches of one bond
\* with another inflation and base rate
Runs ==
    {<<q, DefaultInflation, DefaultBaseRate>> : q \in Batches}
      \cup {<<q, Dec(475, -4), Dec(1, -1)>> : q \in {q \in Batches : Len(q) = 1}}

(***************************************************************************)
(* The state: the arguments of analyze_bonds, its position and locals,     *)
(* the frame of the ytm call in progress, what the caller has received,    *)
(* and a record of what was computed (calls, evals, divs, gstart).         *)
(***************************************************************************)
VARIABLES bonds, inflation, base_rate, pc, i, results, cy, args, cash_flows,
          guess, it, f, d, exit, gstart, divs, evals, calls, returned, raised

vars == <<bonds, inflation, base_rate, pc, i, results, cy, args, cash_flows,
          guess, it, f, d, exit, gstart, divs, evals, calls, returned, raised>>

inputs == <<bonds, inflation, base_rate>>
frame == <<args, cash_flows, guess, it, f, d, exit, gstart, divs, evals>>

NoArgs == [price |-> Zero, coupon |-> Zero, years |-> Zero, nominal |-> Zero,
           payments_per_year |-> 0]
Nothing == [has |-> FALSE, val |-> <<>>]
Value(v) == [has |-> TRUE, val |-> v]

Init ==
    /\ \E r \in Runs : bonds = r[1] /\ inflation = r[2] /\ base_rate = r[3]
    /\ pc = "for" /\ i = 1 /\ results = <<>> /\ cy = Zero
    /\ args = NoArgs /\ cash_flows = <<>> /\ guess = Zero /\ it = 0
    /\ f = Zero /\ d = Zero /\ exit = "none" /\ gstart = Zero /\ divs = 0
    /\ evals = <<>> /\ calls = <<>>
    /\ returned = Nothing /\ raised = "none"

\* the arguments analyze_bonds passes to current_yield for bond b
CyArgs(b) ==
    [price |-> b["price"], coupon |-> b["coupon"],
     payments_per_year |-> Get(b, "payments_per_year", DefaultPayments)]

\* the arguments analyze_bonds passes to ytm for bond b
YtmArgs(b) ==
    [price |-> b["price"], coupon |-> b["coupon"], years |-> b["years"],
     nominal |-> Get(b, "nominal", FromInt(DefaultNominal)),
     payments_per_year |-> Get(b, "payments_per_year", DefaultPayments)]

\* the arguments analyze_bonds passes to floater_coupon for bond b
FcArgs(b) ==
    [base_rate |-> base_rate, spread |-> Get(b, "spread", DefaultSpread)]

\* the record of a call made for the bond at hand
Call(fn, a, ret) == [bond |-> i, fn |-> fn, args |-> a, ret |-> ret]

\* an analyze_bonds that catches e and returns what it has: C3 fails with it
UnwindPartial(e) == pc' = "done" /\ raised' = e /\ returned' = Value(results)

\* exception e leaves analyze_bonds: nothing is returned to the caller
Unwind(e) == pc' = "raised" /\ raised' = e /\ returned' = returned

\* ytm up to the loop: the cash flows are built and the guess set, or
\* indexing the empty array raises
EnterYtm(a, log) ==
    /\ args' = a
    /\ calls' = Append(log, Call("ytm", a, Nothing))
    /\ it' = 0 /\ f' = Zero /\ d' = Zero /\ exit' = "none" /\ divs' = 0
    /\ evals' = <<>> /\ gstart' = Zero
    /\ \E cf \in {CashFlows(a.coupon, Periods(a.years, a.payments_per_year),
                            a.nominal)} :
         IF IsExc(cf)
         THEN /\ Unwind(cf.exc)
              /\ cash_flows' = <<>> /\ guess' = Zero
         ELSE /\ pc' = "ytm_loop" /\ UNCHANGED <<raised, returned>>
              /\ cash_flows' = cf.array /\ guess' = Guess0

\* the report of a bond of kind b["type"]
Report(b, yt) ==
    IF b["type"] = "fixed"
    THEN [name |-> b["name"], type |-> "Fixed"]
           @@ ("Current Yield" :> PctStr(cy)) @@ ("YTM" :> PctStr(yt))
    ELSE IF b["type"] = "linker"
    THEN [name |-> b["name"], type |-> "Linker"]
           @@ ("YTM" :> PctStr(yt))
           @@ ("Real Yield" :> PctStr(real_yield(yt, inflation)))
    ELSE [name |-> b["name"], type |-> "Floater"]
           @@ ("Coupon Now" :>
                 PctStr(floater_coupon(base_rate, Get(b, "spread", DefaultSpread))))

\* fixed: current_yield, then the call of ytm
ForFixed ==
    /\ pc = "for" /\ i <= Len(bonds) /\ bonds[i]["type"] = "fixed"
    /\ \E a \in {CyArgs(bonds[i])} :
       \E c \in {current_yield(a.price, a.coupon, a.payments_per_year)} :
         IF IsExc(c)
         THEN /\ Unwind(c.exc)
              /\ calls' = Append(calls, Call("current_yield", a, Nothing))
              /\ UNCHANGED <<cy, frame>>
         ELSE /\ cy' = c
              /\ EnterYtm(YtmArgs(bonds[i]),
                          Append(calls, Call("current_yield", a, Value(c))))
    /\ UNCHANGED <<inputs, i, results>>

\* linker: the call of ytm
ForLinker ==
    /\ pc = "for" /\ i <= Len(bonds) /\ bonds[i]["type"] = "linker"
    /\ EnterYtm(YtmArgs(bonds[i]), calls)
    /\ UNCHANGED <<inputs, i, results, cy>>

\* floater: floater_coupon and the report
ForFloater ==
    /\ pc = "for" /\ i <= Len(bonds) /\ bonds[i]["type"] = "floater"
    /\ \E a \in {FcArgs(bonds[i])} :
         calls' = Append(calls, Call("floater_coupon", a,
                                     Value(floater_coupon(a.base_rate, a.spread))))
    /\ results' = Append(results, Report(bonds[i], Zero))
    /\ i' = i + 1
    /\ UNCHANGED <<inputs, pc, cy, frame, returned, raised>>

\* a loop that ends at the first bond of another kind: C1 fails with it
ForOtherStops ==
    /\ pc = "for" /\ i <= Len(bonds)
    /\ bonds[i]["type"] \notin {"fixed", "linker", "floater"}
    /\ pc' = "done"
    /\ returned' = Value(results)
    /\ UNCHANGED <<inputs, i, results, cy, frame, calls, raised>>

\* any other kind: no branch is taken
ForOther ==
    /\ pc = "for" /\ i <= Len(bonds)
    /\ bonds[i]["type"] \notin {"fixed", "linker", "floater"}
    /\ i' = i + 1
    /\ UNCHANGED <<inputs, pc, results, cy, frame, calls, returned, raised>>

\* a pass that tests f before it updates guess: C10 fails with it
YtmPassTestFirst ==
    /\ pc = "ytm_loop" /\ InRange(it)
    /\ \E fv \in {npv(cash_flows, args.price, args.payments_per_year, guess)} :
       \E dv \in {Derivative(npv(cash_flows, args.price, args.payments_per_year,
                                 FAdd(guess, FdStep)), fv)} :
         /\ f' = fv /\ d' = dv
         /\ IF IsFlat(dv)
            THEN /\ guess' = guess /\ divs' = divs
                 /\ exit' = "flat" /\ pc' = "ytm_return"
            ELSE IF IsSmall(fv)
            THEN /\ guess' = guess /\ divs' = divs
                 /\ exit' = "residual" /\ pc' = "ytm_return"
            ELSE /\ guess' = FSub(guess, FDiv(fv, dv)) /\ divs' = divs + 1
                 /\ exit' = "none" /\ pc' = "ytm_loop"
    /\ it' = it + 1
    /\ gstart' = guess
    /\ evals' = evals \o <<guess, FAdd(guess, FdStep)>>
    /\ UNCHANGED <<inputs, i, results, cy, args, cash_flows, calls, returned, raised>>

\* one pass of the Newton loop: f and d at guess, the test of d, the update
\* of guess, the test of f
YtmPass ==
    /\ pc = "ytm_loop" /\ InRange(it)
    /\ \E fv \in {npv(cash_flows, args.price, args.payments_per_year, guess)} :
       \E dv \in {Derivative(npv(cash_flows, args.price, args.payments_per_year,
                                 FAdd(guess, FdStep)), fv)} :
         /\ f' = fv /\ d' = dv
         /\ IF IsFlat(dv)
            THEN /\ guess' = guess /\ divs' = divs
                 /\ exit' = "flat" /\ pc' = "ytm_return"
            ELSE /\ guess' = FSub(guess, FDiv(fv, dv)) /\ divs' = divs + 1
                 /\ IF IsSmall(fv)
                    THEN exit' = "residual" /\ pc' = "ytm_return"
                    ELSE exit' = "none" /\ pc' = "ytm_loop"
    /\ it' = it + 1
    /\ gstart' = guess
    /\ evals' = evals \o <<guess, FAdd(guess, FdStep)>>
    /\ UNCHANGED <<inputs, i, results, cy, args, cash_flows, calls, returned, raised>>

\* range(100) is exhausted
YtmExhausted ==
    /\ pc = "ytm_loop" /\ ~InRange(it)
    /\ pc' = "ytm_return" /\ exit' = "cap"
    /\ UNCHANGED <<inputs, i, results, cy, args, cash_flows, guess, it, f, d,
                   gstart, divs, evals, calls, returned, raised>>

\* ytm returns guess; analyze_bonds appends the report of the bond
YtmReturn ==
    /\ pc = "ytm_return"
    /\ calls' = [calls EXCEPT ![Len(calls)].ret = Value(guess)]
    /\ results' = Append(results, Report(bonds[i], guess))
    /\ i' = i + 1
    /\ pc' = "for"
    /\ UNCHANGED <<inputs, cy, frame, returned, raised>>

\* the loop over bonds ends: analyze_bonds returns results
Return ==
    /\ pc = "for" /\ i > Len(bonds)
    /\ pc' = "done"
    /\ returned' = Value(results)
    /\ UNCHANGED <<inputs, i, results, cy, frame, calls, raised>>

Next ==
    \/ ForFixed
    \/ ForLinker
    \/ ForFloater
    \/ ForOther
    \/ YtmPass
    \/ YtmExhausted
    \/ YtmReturn
    \/ Return

Spec == Init /\ [][Next]_vars

(***************************************************************************)
(* The claims, as properties of Spec.                                      *)
(***************************************************************************)
Kinds == {"fixed", "linker", "floater"}

KindName(type) ==
    CASE type = "fixed" -> "Fixed"
      [] type = "linker" -> "Linker"
      [] type = "floater" -> "Floater"

\* the indices of the bonds of a recognized kind, in input order
Recognized == SelectSeq([j \in 1..Len(bonds) |-> j], LAMBDA j : bonds[j]["type"] \in Kinds)

\* the calls made for bond j, in the order made
CallsOf(j) == SelectSeq(calls, LAMBDA c : c.bond = j)

\* the names of the functions called for bond j
Fns(j) == [k \in 1..Len(CallsOf(j)) |-> CallsOf(j)[k].fn]

\* the last call of ytm has returned v
YtmReturned(v) ==
    /\ calls # <<>>
    /\ calls[Len(calls)].fn = "ytm"
    /\ calls[Len(calls)].ret = Value(v)

MetricKeys(r) == DOMAIN r \ {"name", "type"}

Digit == {"0", "1", "2", "3", "4", "5", "6", "7", "8", "9"}

\* C1: when analyze_bonds returns, the caller has exactly one report per bond
\* of a recognized kind, in input order, each with the name and kind of its
\* bond; a bond of another kind adds no report, and an exception is only
\* ever raised while a fixed or linker bond is computed.
OneReportPerRecognizedBond ==
    /\ pc = "done" =>
         /\ returned.has
         /\ raised = "none"
         /\ Len(returned.val) = Len(Recognized)
         /\ \A k \in 1..Len(returned.val) :
              /\ returned.val[k]["name"] = bonds[Recognized[k]]["name"]
              /\ returned.val[k]["type"] = KindName(bonds[Recognized[k]]["type"])
    /\ raised # "none" => bonds[i]["type"] \in {"fixed", "linker"}

\* a batch has been returned in which a recognized bond follows an
\* unrecognized one
SkippedThenReported ==
    /\ pc = "done"
    /\ Len(returned.val) >= 1
    /\ \E j \in 1..Len(bonds) : \E k \in 1..Len(bonds) :
         j < k /\ bonds[j]["type"] \notin Kinds /\ bonds[k]["type"] \in Kinds

\* the report r of bond b is the one its kind prescribes, with the texts of
\* the values computed by the calls c made for the bond
Dispatched(r, b, c) ==
    CASE b["type"] = "fixed" ->
           /\ DOMAIN r = {"name", "type", "Current Yield", "YTM"}
           /\ <<c[1].fn, c[2].fn>> = <<"current_yield", "ytm">> /\ Len(c) = 2
           /\ c[1].ret = Value(FDiv(FMul(b["coupon"], FromInt(c[1].args.payments_per_year)),
                                    b["price"]))
           /\ r["Current Yield"] = PctStr(c[1].ret.val)
           /\ r["YTM"] = PctStr(c[2].ret.val)
      [] b["type"] = "linker" ->
           /\ DOMAIN r = {"name", "type", "YTM", "Real Yield"}
           /\ <<c[1].fn>> = <<"ytm">> /\ Len(c) = 1
           /\ r["YTM"] = PctStr(c[1].ret.val)
           /\ r["Real Yield"] = PctStr(FSub(c[1].ret.val, inflation))
      [] b["type"] = "floater" ->
           /\ DOMAIN r = {"name", "type", "Coupon Now"}
           /\ <<c[1].fn>> = <<"floater_coupon">> /\ Len(c) = 1
           /\ r["Coupon Now"] = PctStr(FAdd(base_rate, c[1].args.spread))

NoPartialResults ==
    raised # "none" =>
      /\ pc = "raised"
      /\ raised \in {"ZeroDivisionError", "IndexError"}
      /\ ~returned.has
      /\ ~ENABLED Next

\* a bond has raised after the report of an earlier bond had been appended
RaisedAfterReports == raised # "none" /\ i > 1 /\ results # <<>>

\* C4 as stated: a call of ytm with int(years * payments_per_year) < 1 ends
\* in an InvalidInputError
DegenerateMaturityRejected ==
    \A k \in 1..Len(calls) :
      (/\ calls[k].fn = "ytm"
       /\ Periods(calls[k].args.years, calls[k].args.payments_per_year) < 1)
        => raised = "InvalidInputError"

\* s is the text of a number with two decimals, or of nan or inf, and "%"
PercentText(s) ==
    /\ Len(s) >= 4
    /\ s[Len(s)] = "%"
    /\ \/ SubSeq(s, Len(s) - 3, Len(s) - 1) \in {<<"n", "a", "n">>, <<"i", "n", "f">>}
       \/ /\ Len(s) >= 5
          /\ s[Len(s) - 3] = "."
          /\ {s[Len(s) - 2], s[Len(s) - 1], s[Len(s) - 4]} \subseteq Digit

ValidBond(a) ==
    /\ FLt(Zero, a.price)
    /\ ~FLt(a.coupon, Zero)
    /\ FLt(Zero, a.nominal)
    /\ Periods(a.years, a.payments_per_year) >= 1

\* C6 as stated: when the loop stops on the test of f for a valid bond, the
\* npv at the guess ytm returns is below 1e-4 in absolute value
ResidualStopIsAccurate ==
    (pc = "ytm_return" /\ exit = "residual" /\ ValidBond(args)) =>
      FLt(FAbs(npv(cash_flows, args.price, args.payments_per_year, guess)),
          Dec(1, -4))

\* C7: the loop body never runs more than 100 times in a call of ytm, with
\* at most one update of guess in each pass; every step taken inside the
\* loop is one more pass or the end of the loop; after 100 passes the loop is
\* over; and the value ytm returns is the guess held then.
LoopIsBounded ==
    /\ [](/\ it <= 100
          /\ divs <= it
          /\ Len(evals) = 2 * it
          /\ (pc = "ytm_loop" /\ it = 100) => (ENABLED YtmExhausted /\ ~ENABLED YtmPass)
          /\ (exit = "cap") => (it = 100 /\ pc # "ytm_loop")
          /\ (pc \in {"for", "done"} /\ calls # <<>> /\ calls[Len(calls)].fn = "ytm")
               => YtmReturned(guess))
    /\ [][pc = "ytm_loop" =>
            \/ pc' = "ytm_loop" /\ it' = it + 1
            \/ pc' = "ytm_return" /\ it' \in {it, it + 1}]_vars

\* ytm has returned after 100 passes that never met either test
CapReached ==
    /\ exit = "cap" /\ it = 100 /\ divs = 100
    /\ pc = "for" /\ YtmReturned(guess)

\* C8: after a pass in which abs(d) < 1e-9 the loop is over, guess is what it
\* was when the pass began, f / d was not computed in that pass (every
\* earlier pass computed it once), and ytm returns that guess: 0.15 when the
\* pass is the first.
FlatStopsAtOnce ==
    (it > 0 /\ FLt(FAbs(d), Dec(1, -9))) =>
      /\ exit = "flat"
      /\ pc # "ytm_loop"
      /\ guess = gstart
      /\ divs = it - 1
      /\ it = 1 => guess = Dec(15, -2)
      /\ (pc \in {"for", "done"} /\ calls[Len(calls)].fn = "ytm") => YtmReturned(gstart)

\* ytm has returned 0.15 from the first pass for coupon = 0 and nominal = 0
FlatOnFirstPass ==
    /\ exit = "flat" /\ it = 1 /\ divs = 0
    /\ args.coupon = Zero /\ args.nominal = Zero
    /\ pc = "for" /\ YtmReturned(Dec(15, -2))

\* C9: every call made for a bond takes the bond's own payments_per_year,
\* nominal and spread where the bond has them, and 2, 1000 and 0.0 where it
\* has not; current_yield and ytm of one bond take the same payments_per_year.
DefaultsPerBond ==
    \A k \in 1..Len(calls) :
      LET c == calls[k]
          b == bonds[c.bond]
      IN  /\ c.fn \in {"current_yield", "ytm"} =>
                c.args.payments_per_year =
                  IF "payments_per_year" \in DOMAIN b THEN b["payments_per_year"] ELSE 2
          /\ c.fn = "ytm" =>
                c.args.nominal =
                  IF "nominal" \in DOMAIN b THEN b["nominal"] ELSE FromInt(1000)
          /\ c.fn = "floater_coupon" =>
                c.args.spread = IF "spread" \in DOMAIN b THEN b["spread"] ELSE Zero

\* a batch is done in which a bond with its own nominal and payments_per_year
\* comes before one that has neither, and a floater with a spread before one
\* without, or the other way round
SuppliedThenDefault ==
    /\ pc = "done" /\ Len(bonds) = 2
    /\ bonds[1]["type"] = bonds[2]["type"]
    /\ \/ /\ {"nominal", "payments_per_year"} \subseteq DOMAIN bonds[1]
          /\ {"nominal", "payments_per_year"} \cap DOMAIN bonds[2] = {}
          /\ bonds[2]["type"] = "fixed"
       \/ /\ "spread" \in DOMAIN bonds[1]
          /\ "spread" \notin DOMAIN bonds[2]
          /\ bonds[2]["type"] = "floater"

\* C10 (as the code has it): when the loop stops on the test of f, the f
\* tested is the npv at the guess held when the pass began, the guess ytm
\* returns is that guess less f / d, and npv has not been evaluated since the
\* update: the last two evaluations are those of the pass, at the earlier
\* guess and 1e-6 above it.
StopsOneStepPast ==
    (pc = "ytm_return" /\ exit = "residual") =>
      /\ f = npv(cash_flows, args.price, args.payments_per_year, gstart)
      /\ FLt(FAbs(f), Dec(1, -6))
      /\ guess = FSub(gstart, FDiv(f, d))
      /\ Len(evals) = 2 * it
      /\ evals[Len(evals) - 1] = gstart
      /\ evals[Len(evals)] = FAdd(gstart, Dec(1, -6))

\* the loop has stopped on the test of f after several passes, at a guess
\* that differs from the one tested
SteppedPast ==
    /\ pc = "ytm_return" /\ exit = "residual"
    /\ it > 1
    /\ guess # gstart

\* C10 as stated: when the loop stops on the test of f, npv has never been
\* evaluated at the guess returned
ReturnedGuessNeverEvaluated ==
    (pc = "ytm_return" /\ exit = "residual") =>
      \A k \in 1..Len(evals) : evals[k] # guess
====
